---- MODULE Spec2Model ----
(***************************************************************************)
(* Model of static_monte_carlo.py: the linear congruential uniform         *)
(* generator, the samplers built on it, the Monte Carlo sample mean and    *)
(* the efficiency rule.                                                    *)
(*                                                                         *)
(* A Python generator is a record with a position pc:                      *)
(*   "created"   the generator function was called, its body has not run   *)
(*   "suspended" the body is parked at a yield                             *)
(*   "done"      the body returned or raised; the frame is gone            *)
(* A request (next) returns [exc, val, gen]: the exception raised ("none"  *)
(* when a value is yielded), the value and the generator afterwards.       *)
(* An emitted real x is kept as the exact fraction <<numerator,            *)
(* denominator>>; every integer of the model is far below 2^53, so the     *)
(* double the code computes is the correctly rounded value of that         *)
(* fraction and order comparisons with 0, 1 and i/M agree with it.         *)
(***************************************************************************)
EXTENDS Integers, Sequences, FiniteSets, TLC

(* ---------------- bounds ---------------- *)
MaxM == 3
MaxA == 2
MaxC == 1
MaxClock == 3
MaxDraws == 3
MaxBins == 2
MaxBatches == 2
MaxLambda == 2
MaxRequests == 5
MaxN == 3
MaxLen == 3
MaxVal == 3
MaxPairRequests == 2
MaxCalls == 2

(* ---------------- values ---------------- *)
\* the default of the parameter x0 (line 59); an integer no seed of the model takes
None == 0 - 1000

NoValue == <<>>

Streams == {1, 2}

Seeds == {None} \cup (0 - 1 .. MaxM)
Multipliers == 0 - 1 .. MaxA
Moduli == 1 .. MaxM
Increments == 0 .. MaxC
Clock == 0 .. MaxClock

\* no generator object yet
NoGen == [pc |-> "nocall", x0 |-> None, a |-> 0, m |-> 1, c |-> 0, steps |-> 0]

VARIABLES
  clock,    \* datetime.now().microsecond, as read at this moment
  uargs,    \* per stream: the arguments of the uniform_sampling call
  ucall,    \* per stream: outcome of the uniform_sampling call itself
  u,        \* per stream: the generator object
  ulog,     \* per stream: the outcomes of the requests made so far
  uborn,    \* per stream: the clock's reading when uniform_sampling was called
  pargs,    \* the producer called and its arguments
  p,        \* the producer's generator object
  plog,     \* the outcomes of the requests made to the producer so far
  p2,       \* the generator object of a second call of the same producer
  p2log,    \* the outcomes of the requests made to the second producer
  calls,    \* per caller advancing stream 1: position, state read, outcomes
  mc,       \* the monte_carlo call: arguments, position, requests, outcome
  data,     \* the argument of efficiency_rule
  eff       \* the outcome of the efficiency_rule call

uvars == <<uargs, ucall, u, ulog, uborn>>
pvars == <<pargs, p, plog>>
evars == <<data, eff>>
p2vars == <<p2, p2log>>
vars == <<clock, uargs, ucall, u, ulog, uborn, pargs, p, plog, p2, p2log, calls,
          mc, data, eff>>

(* ---------------- uniform_sampling ---------------- *)

\* truth value of an int-or-None, as `or` tests it
truthy(x) == x # None /\ x # 0

modulus_unreduced(x, a, m, c) == a * x + c

modulus_adds(x, a, m, c) == (a + x + c) % m

\* the closure modulus(x) with its free variables a, c, m
modulus(x, a, m, c) == (a * x + c) % m

seed_of_fixed_default(x0, now) == IF truthy(x0) THEN x0 ELSE 0

\* line 77: the seed the body works with
seed_of(x0, now) == IF truthy(x0) THEN x0 ELSE now

seed_ok_upper_only(x0, m) == x0 < m

\* line 78
seed_ok(x0, m) == x0 >= 0 /\ x0 < m

\* calling the generator function binds the arguments and runs nothing
uniform_sampling(x0, a, m, c) ==
  [exc |-> "none",
   gen |-> [pc |-> "created", x0 |-> x0, a |-> a, m |-> m, c |-> c, steps |-> 0]]

\* one next() on a uniform generator, the clock reading `now`;
\* steps counts the state transitions made (line 82)
next_uniform(g, now) ==
  IF g.pc = "done"
    THEN [exc |-> "StopIteration", val |-> NoValue, gen |-> g]
    ELSE LET x == IF g.pc = "created" THEN seed_of(g.x0, now) ELSE g.x0
         IN  IF g.pc = "created" /\ ~seed_ok(x, g.m)
               THEN [exc |-> "AssertionError", val |-> NoValue,
                     gen |-> [g EXCEPT !.pc = "done", !.x0 = None]]
               ELSE LET x1 == modulus(x, g.a, g.m, g.c)
                    IN  [exc |-> "none", val |-> <<x1, g.m>>,
                         gen |-> [g EXCEPT !.pc = "suspended", !.x0 = x1,
                                           !.steps = @ + 1]]

(* ---------------- the samplers built on uniform_sampling ---------------- *)

\* uniforms summed by normal_standard (line 200) and the shift it subtracts
NUniforms == 12
Shift == 6

Kinds == {"uniform_sampling", "stratified_sampling", "exponential_sampling",
          "normal_sampling", "normal_standard"}

\* a sampler's generator: its position, its arguments, its loop variables
\* and the uniform generator u it owns
Producer(kind, M, k, lambda, x0, a, m, c, gu) ==
  [kind |-> kind, pc |-> "created", M |-> M, k |-> k, lambda |-> lambda,
   x0 |-> x0, a |-> a, m |-> m, c |-> c, j |-> 0, i |-> 0, u |-> gu]

NoProducer == [Producer("uniform_sampling", 1, 0, 1, None, 0, 1, 0, NoGen)
                 EXCEPT !.pc = "nocall"]

\* an exception leaving a generator's body ends the generator; a
\* StopIteration leaving it is turned into RuntimeError
raise(g, gu, e) ==
  [exc |-> IF e = "StopIteration" THEN "RuntimeError" ELSE e,
   val |-> NoValue,
   gen |-> [g EXCEPT !.pc = "done", !.u = gu]]

\* lines 105-106: the uniform generator is made in the call, the
\* generator expression over range(k) x range(M) is returned unstarted
stratified_sampling(M, k, x0, a, m, c) ==
  Producer("stratified_sampling", M, k, 1, x0, a, m, c,
           uniform_sampling(x0, a, m, c).gen)

loop_step_short(g) ==
  IF g.pc = "created" THEN <<0, 0>>
  ELSE IF g.i + 1 < g.M - 1 THEN <<g.j, g.i + 1>>
  ELSE <<g.j + 1, 0>>

\* for j in range(k) for i in range(M): the (j, i) of the next iteration
loop_step(g) ==
  IF g.pc = "created" THEN <<0, 0>>
  ELSE IF g.i + 1 < g.M THEN <<g.j, g.i + 1>>
  ELSE <<g.j + 1, 0>>

scaled_without_bin(x, m, i, M) == <<x, m * M>>

\* (u + i) / M for u = x / m
scaled(x, m, i, M) == <<x + i * m, m * M>>

\* one next() on the generator expression of line 106: the loops move to
\* the next (j, i), then (next(u) + i) / M is computed
next_stratified(g, now) ==
  IF g.pc = "done"
    THEN [exc |-> "StopIteration", val |-> NoValue, gen |-> g]
    ELSE LET ji == loop_step(g)
         IN  IF g.M < 1 \/ ji[1] >= g.k
               THEN [exc |-> "StopIteration", val |-> NoValue,
                     gen |-> [g EXCEPT !.pc = "done"]]
               ELSE LET r == next_uniform(g.u, now)
                    IN  IF r.exc # "none"
                          THEN raise(g, r.gen, r.exc)
                          ELSE [exc |-> "none",
                                val |-> scaled(r.val[1], r.val[2], ji[2], g.M),
                                gen |-> [g EXCEPT !.pc = "suspended",
                                                  !.j = ji[1], !.i = ji[2],
                                                  !.u = r.gen]]

\* the generator functions: the call binds the arguments, the body (and
\* with it u = uniform_sampling(*args)) runs at the first request
exponential_sampling(lambda, x0, a, m, c) ==
  Producer("exponential_sampling", 1, 0, lambda, x0, a, m, c, NoGen)

normal_sampling(x0, a, m, c) ==
  Producer("normal_sampling", 1, 0, 1, x0, a, m, c, NoGen)

normal_standard(x0, a, m, c) ==
  Producer("normal_standard", 1, 0, 1, x0, a, m, c, NoGen)

\* the uniform generator a running body holds in u
own_u(g) ==
  IF g.pc = "created" THEN uniform_sampling(g.x0, g.a, g.m, g.c).gen ELSE g.u

\* n successive next(u): [exc, xs, gen], xs the numerators drawn before
\* an exception, if any, stopped the sequence
RECURSIVE draw_n(_, _, _)
draw_n(gu, n, now) ==
  IF n = 0
    THEN [exc |-> "none", xs |-> <<>>, gen |-> gu]
    ELSE LET r == next_uniform(gu, now)
         IN  IF r.exc # "none"
               THEN [exc |-> r.exc, xs |-> <<>>, gen |-> r.gen]
               ELSE LET rest == draw_n(r.gen, n - 1, now)
                    IN  [exc |-> rest.exc, xs |-> <<r.val[1]>> \o rest.xs,
                         gen |-> rest.gen]

RECURSIVE SumSeq(_)
SumSeq(xs) == IF xs = <<>> THEN 0 ELSE Head(xs) + SumSeq(Tail(xs))

next_exponential_emits_infinity(g, now) ==
  IF g.pc = "done"
    THEN [exc |-> "StopIteration", val |-> NoValue, gen |-> g]
    ELSE LET r == next_uniform(own_u(g), now)
         IN  IF r.exc # "none" THEN raise(g, r.gen, r.exc)
             ELSE [exc |-> "none", val |-> <<r.val[1], r.val[2], g.lambda>>,
                   gen |-> [g EXCEPT !.pc = "suspended", !.u = r.gen]]

\* line 129; math.log(0.0) raises ValueError ("math domain error").
\* The value -(1/lambda) * ln(x/m) is kept as the term <<x, m, lambda>>.
next_exponential(g, now) ==
  IF g.pc = "done"
    THEN [exc |-> "StopIteration", val |-> NoValue, gen |-> g]
    ELSE LET r == next_uniform(own_u(g), now)
         IN  IF r.exc # "none" THEN raise(g, r.gen, r.exc)
             ELSE IF r.val[1] = 0 THEN raise(g, r.gen, "ValueError")
             ELSE [exc |-> "none", val |-> <<r.val[1], r.val[2], g.lambda>>,
                   gen |-> [g EXCEPT !.pc = "suspended", !.u = r.gen]]

next_normal_sampling_swapped(g, now) ==
  IF g.pc = "done"
    THEN [exc |-> "StopIteration", val |-> NoValue, gen |-> g]
    ELSE LET r == draw_n(own_u(g), 2, now)
         IN  IF r.exc # "none" THEN raise(g, r.gen, r.exc)
             ELSE IF r.xs[2] = 0 THEN raise(g, r.gen, "ValueError")
             ELSE [exc |-> "none", val |-> <<r.xs[2], g.m, r.xs[1], g.m>>,
                   gen |-> [g EXCEPT !.pc = "suspended", !.u = r.gen]]

\* lines 159-164: u1, then u2, then log(u1).  The pair is kept as
\* <<x1, m, x2, m>> for u1 = x1/m, u2 = x2/m.
next_normal_sampling(g, now) ==
  IF g.pc = "done"
    THEN [exc |-> "StopIteration", val |-> NoValue, gen |-> g]
    ELSE LET r == draw_n(own_u(g), 2, now)
         IN  IF r.exc # "none" THEN raise(g, r.gen, r.exc)
             ELSE IF r.xs[1] = 0 THEN raise(g, r.gen, "ValueError")
             ELSE [exc |-> "none", val |-> <<r.xs[1], g.m, r.xs[2], g.m>>,
                   gen |-> [g EXCEPT !.pc = "suspended", !.u = r.gen]]

\* line 200: sum of twelve uniforms minus 6 = (x1 + ... + x12 - 6m) / m
next_normal_standard(g, now) ==
  IF g.pc = "done"
    THEN [exc |-> "StopIteration", val |-> NoValue, gen |-> g]
    ELSE LET r == draw_n(own_u(g), NUniforms, now)
         IN  IF r.exc # "none" THEN raise(g, r.gen, r.exc)
             ELSE [exc |-> "none", val |-> <<SumSeq(r.xs) - Shift * g.m, g.m>>,
                   gen |-> [g EXCEPT !.pc = "suspended", !.u = r.gen]]

\* x(*args) for the producer x named by kind
call_producer(kind, M, k, lambda, x0, a, m, c) ==
  CASE kind = "uniform_sampling" ->
         Producer(kind, 1, 0, 1, x0, a, m, c, uniform_sampling(x0, a, m, c).gen)
    [] kind = "stratified_sampling" -> stratified_sampling(M, k, x0, a, m, c)
    [] kind = "exponential_sampling" -> exponential_sampling(lambda, x0, a, m, c)
    [] kind = "normal_sampling" -> normal_sampling(x0, a, m, c)
    [] kind = "normal_standard" -> normal_standard(x0, a, m, c)

\* next(gen) for a generator of any of the producers
next_producer(g, now) ==
  CASE g.kind = "uniform_sampling" ->
         LET r == next_uniform(g.u, now)
         IN  [exc |-> r.exc, val |-> r.val,
              gen |-> [g EXCEPT !.pc = r.gen.pc, !.u = r.gen]]
    [] g.kind = "stratified_sampling" -> next_stratified(g, now)
    [] g.kind = "exponential_sampling" -> next_exponential(g, now)
    [] g.kind = "normal_sampling" -> next_normal_sampling(g, now)
    [] g.kind = "normal_standard" -> next_normal_standard(g, now)

(* ---------------- monte_carlo ---------------- *)

RECURSIVE ProdSeq(_)
ProdSeq(xs) == IF xs = <<>> THEN 1 ELSE Head(xs) * ProdSeq(Tail(xs))

Column(vals, c) == [i \in 1 .. Len(vals) |-> vals[i][c]]

range_len_plus_one(n) == IF n > 0 THEN n + 1 ELSE 0

\* the number of iterations of `for i in range(n)`
range_len(n) == IF n > 0 THEN n ELSE 0

mean_of_empty_is_zero(kind, vals) ==
  IF vals = <<>> THEN [exc |-> "none", val |-> <<0, 1>>]
  ELSE IF kind = "normal_sampling" THEN [exc |-> "TypeError", val |-> NoValue]
  ELSE IF kind = "exponential_sampling"
    THEN [exc |-> "none",
          val |-> <<ProdSeq(Column(vals, 1)), ProdSeq(Column(vals, 2)),
                    vals[1][3] * Len(vals)>>]
  ELSE [exc |-> "none",
        val |-> <<SumSeq(Column(vals, 1)), vals[1][2] * Len(vals)>>]

\* statistics.mean over the values of one producer.  No data: StatisticsError;
\* tuples (normal_sampling): TypeError.  Fractions of one denominator d:
\* (x1 + ... + xn) / (d * n).  Terms -(1/l) ln(x/m) of exponential_sampling:
\* their sum is -(1/l) ln(x1 ... xn / m^n), the mean -(1/(l*n)) ln(...).
mean(kind, vals) ==
  IF vals = <<>> THEN [exc |-> "StatisticsError", val |-> NoValue]
  ELSE IF kind = "normal_sampling" THEN [exc |-> "TypeError", val |-> NoValue]
  ELSE IF kind = "exponential_sampling"
    THEN [exc |-> "none",
          val |-> <<ProdSeq(Column(vals, 1)), ProdSeq(Column(vals, 2)),
                    vals[1][3] * Len(vals)>>]
  ELSE [exc |-> "none",
        val |-> <<SumSeq(Column(vals, 1)), vals[1][2] * Len(vals)>>]

NoMC == [pc |-> "nocall", n |-> 0, reqs |-> 0, vals |-> <<>>,
         gen |-> NoProducer, exc |-> "none", result |-> NoValue]

(* ---------------- efficiency_rule ---------------- *)

\* tuple(d[0] * d[1] for d in data)
products(d) == [i \in 1 .. Len(d) |-> d[i][1] * d[i][2]]

RECURSIVE least(_)
least(t) ==
  IF Len(t) = 1 THEN t[1]
  ELSE LET r == least(Tail(t)) IN IF r < t[1] THEN r ELSE t[1]

\* min(result): ValueError on an empty tuple
py_min(t) ==
  IF t = <<>> THEN [exc |-> "ValueError", val |-> 0]
  ELSE [exc |-> "none", val |-> least(t)]

index_of_last(t, v) ==
  IF \E i \in 1 .. Len(t) : t[i] = v
    THEN [exc |-> "none",
          val |-> (CHOOSE i \in 1 .. Len(t) :
                     t[i] = v /\ \A h \in i + 1 .. Len(t) : t[h] # v) - 1]
    ELSE [exc |-> "ValueError", val |-> 0]

\* result.index(v): the 0-based position of the first element equal to v
py_index(t, v) ==
  IF \E i \in 1 .. Len(t) : t[i] = v
    THEN [exc |-> "none",
          val |-> (CHOOSE i \in 1 .. Len(t) :
                     t[i] = v /\ \A h \in 1 .. i - 1 : t[h] # v) - 1]
    ELSE [exc |-> "ValueError", val |-> 0]

efficiency_rule_empty_is_zero(d) ==
  IF d = <<>> THEN [exc |-> "none", val |-> <<0, 0>>]
  ELSE LET result == products(d)
       IN  [exc |-> "none",
            val |-> <<py_index(result, py_min(result).val).val,
                      py_min(result).val>>]

\* lines 48-49; min(result) is evaluated before index is called
efficiency_rule(d) ==
  LET result == products(d)
      lo == py_min(result)
  IN  IF lo.exc # "none" THEN [exc |-> lo.exc, val |-> NoValue]
      ELSE LET at == py_index(result, lo.val)
           IN  IF at.exc # "none" THEN [exc |-> at.exc, val |-> NoValue]
               ELSE [exc |-> "none", val |-> <<at.val, py_min(result).val>>]

\* the doctest of lines 45-46, the pairs in hundredths
DoctestData == << <<12, 134>>, <<1, 346>> >>

(* ---------------- the parts not in use ---------------- *)

IdleU ==
  /\ uargs = [s \in Streams |-> [x0 |-> None, a |-> 0, m |-> 1, c |-> 0]]
  /\ ucall = [s \in Streams |-> "nocall"]
  /\ u = [s \in Streams |-> NoGen]
  /\ ulog = [s \in Streams |-> <<>>]
  /\ uborn = [s \in Streams |-> None]

NoArgs == [kind |-> "uniform_sampling", M |-> 1, k |-> 0, lambda |-> 1,
           x0 |-> None, a |-> 0, m |-> 1, c |-> 0]

IdleP == pargs = NoArgs /\ p = NoProducer /\ plog = <<>>

IdleMC == mc = NoMC

NoCall == [pc |-> "nocall", exc |-> "none", val |-> NoValue]

IdleE == data = <<>> /\ eff = NoCall

IdleP2 == p2 = NoProducer /\ p2log = <<>>

Callers == {1, 2}

\* a caller outside next(u): nothing read, no outcome yet
NoCaller == [pc |-> "idle", r |-> [exc |-> "none", val |-> NoValue, gen |-> NoGen],
             got |-> <<>>]

IdleC == calls = [c \in Callers |-> NoCaller]

\* the wall clock moves on
Tick ==
  /\ clock' \in Clock \ {clock}
  /\ UNCHANGED <<uvars, pvars, mc, evars, p2vars, calls>>

(* ---------------- the uniform streams as a system ---------------- *)

InitU ==
  /\ clock \in Clock
  /\ \E a \in Multipliers, m \in Moduli, c \in Increments :
       uargs \in [Streams -> {[x0 |-> s, a |-> a, m |-> m, c |-> c] : s \in Seeds}]
  /\ ucall = [s \in Streams |-> "nocall"]
  /\ u = [s \in Streams |-> NoGen]
  /\ ulog = [s \in Streams |-> <<>>]
  /\ uborn = [s \in Streams |-> None]
  /\ IdleP /\ IdleMC /\ IdleE /\ IdleP2 /\ IdleC

\* u = uniform_sampling(x0, a, m, c)
Construct(s) ==
  /\ ucall[s] = "nocall"
  /\ LET r == uniform_sampling(uargs[s].x0, uargs[s].a, uargs[s].m, uargs[s].c)
     IN  /\ ucall' = [ucall EXCEPT ![s] = IF r.exc = "none" THEN "returned" ELSE r.exc]
         /\ u' = [u EXCEPT ![s] = r.gen]
  /\ UNCHANGED <<clock, uargs, ulog, uborn, pvars, mc, evars, p2vars, calls>>

\* next(u)
Draw(s) ==
  /\ ucall[s] = "returned"
  /\ Len(ulog[s]) < MaxDraws
  /\ LET r == next_uniform(u[s], clock)
     IN  /\ u' = [u EXCEPT ![s] = r.gen]
         /\ ulog' = [ulog EXCEPT ![s] = Append(@, [exc |-> r.exc, val |-> r.val])]
  /\ UNCHANGED <<clock, uargs, ucall, uborn, pvars, mc, evars, p2vars, calls>>

NextU ==
  \/ Tick
  \/ \E s \in Streams : Construct(s)
  \/ \E s \in Streams : Draw(s)

SpecU == InitU /\ [][NextU]_vars

(* ---------------- one producer as a system ---------------- *)

StreamArgs ==
  {[x0 |-> s, a |-> a, m |-> m, c |-> c] :
     s \in Seeds, a \in Multipliers, m \in Moduli, c \in Increments}

\* M and k matter to stratified_sampling only, lambda_ to
\* exponential_sampling only
SamplerArgs ==
  {[kind |-> "stratified_sampling", M |-> M, k |-> k, lambda |-> 1] :
     M \in 1 .. MaxBins, k \in 0 .. MaxBatches}
  \cup {[kind |-> "exponential_sampling", M |-> 1, k |-> 0, lambda |-> l] :
     l \in 1 .. MaxLambda}
  \cup {[kind |-> kd, M |-> 1, k |-> 0, lambda |-> 1] :
     kd \in {"uniform_sampling", "normal_sampling", "normal_standard"}}

ProducerArgs ==
  {[kind |-> sa.kind, M |-> sa.M, k |-> sa.k, lambda |-> sa.lambda,
    x0 |-> st.x0, a |-> st.a, m |-> st.m, c |-> st.c] :
     sa \in SamplerArgs, st \in StreamArgs}

InitP ==
  /\ clock \in Clock
  /\ pargs \in ProducerArgs
  /\ p = NoProducer
  /\ plog = <<>>
  /\ IdleU /\ IdleMC /\ IdleE /\ IdleP2 /\ IdleC

\* gen = x(*args)
CallProducer ==
  /\ p.pc = "nocall"
  /\ p' = call_producer(pargs.kind, pargs.M, pargs.k, pargs.lambda,
                        pargs.x0, pargs.a, pargs.m, pargs.c)
  /\ UNCHANGED <<clock, pargs, plog, uvars, mc, evars, p2vars, calls>>

\* next(gen)
Request ==
  /\ p.pc # "nocall"
  /\ Len(plog) < MaxRequests
  /\ LET r == next_producer(p, clock)
     IN  /\ p' = r.gen
         /\ plog' = Append(plog, [exc |-> r.exc, val |-> r.val])
  /\ UNCHANGED <<clock, pargs, uvars, mc, evars, p2vars, calls>>

NextP == Tick \/ CallProducer \/ Request

SpecP == InitP /\ [][NextP]_vars

(* ---------------- monte_carlo as a system ---------------- *)

SampleSizes == 0 - 1 .. MaxN

InitMC ==
  /\ clock \in Clock
  /\ pargs \in ProducerArgs
  /\ p = NoProducer
  /\ plog = <<>>
  /\ \E n \in SampleSizes : mc = [NoMC EXCEPT !.n = n]
  /\ IdleU /\ IdleE /\ IdleP2 /\ IdleC

\* line 29, and line 30 up to the first request of mean
McCall ==
  /\ mc.pc = "nocall"
  /\ mc' = [mc EXCEPT !.pc = "mean",
                      !.gen = call_producer(pargs.kind, pargs.M, pargs.k,
                                 pargs.lambda, pargs.x0, pargs.a, pargs.m, pargs.c)]
  /\ UNCHANGED <<clock, pvars, uvars, evars, p2vars, calls>>

\* mean pulls one more item of (next(gen) for i in range(n)).  An
\* exception of next(gen) leaves monte_carlo, StopIteration as RuntimeError.
\* A tuple makes mean raise TypeError: at once where mean sums the items as
\* they come, or after all n items where mean first collects them in a list.
McDraw ==
  /\ mc.pc = "mean"
  /\ mc.reqs < range_len(mc.n)
  /\ LET r == next_producer(mc.gen, clock)
         q == raise(mc.gen, r.gen.u, r.exc)
     IN  IF r.exc # "none"
           THEN mc' = [mc EXCEPT !.pc = "raised", !.exc = q.exc,
                                 !.reqs = @ + 1, !.gen = r.gen]
           ELSE \/ mc' = [mc EXCEPT !.reqs = @ + 1, !.gen = r.gen,
                                    !.vals = Append(@, r.val)]
                \/ /\ mean(pargs.kind, <<r.val>>).exc # "none"
                   /\ mc' = [mc EXCEPT !.pc = "raised",
                                       !.exc = mean(pargs.kind, <<r.val>>).exc,
                                       !.reqs = @ + 1, !.gen = r.gen,
                                       !.vals = Append(@, r.val)]
  /\ UNCHANGED <<clock, pvars, uvars, evars, p2vars, calls>>

\* the items are used up: mean returns or raises, and so does monte_carlo
McReturn ==
  /\ mc.pc = "mean"
  /\ mc.reqs = range_len(mc.n)
  /\ LET r == mean(pargs.kind, mc.vals)
     IN  IF r.exc # "none"
           THEN mc' = [mc EXCEPT !.pc = "raised", !.exc = r.exc]
           ELSE mc' = [mc EXCEPT !.pc = "returned", !.result = r.val]
  /\ UNCHANGED <<clock, pvars, uvars, evars, p2vars, calls>>

NextMC == Tick \/ McCall \/ McDraw \/ McReturn

SpecMC == InitMC /\ [][NextMC]_vars

(* ---------------- efficiency_rule as a system ---------------- *)

Pairs == (0 .. MaxVal) \X (0 .. MaxVal)

RECURSIVE TuplesUpTo(_)
TuplesUpTo(n) ==
  IF n = 0 THEN {<<>>}
  ELSE LET shorter == TuplesUpTo(n - 1)
       IN  shorter \cup {Append(t, d) : t \in shorter, d \in Pairs}

InitE ==
  /\ clock = 0
  /\ data \in TuplesUpTo(MaxLen) \cup {DoctestData}
  /\ eff = NoCall
  /\ IdleU /\ IdleP /\ IdleMC /\ IdleP2 /\ IdleC

\* efficiency_rule(data)
CallEfficiencyRule ==
  /\ eff.pc = "nocall"
  /\ LET r == efficiency_rule(data)
     IN  eff' = [pc |-> IF r.exc = "none" THEN "returned" ELSE "raised",
                 exc |-> r.exc, val |-> r.val]
  /\ UNCHANGED <<clock, data, uvars, pvars, mc, p2vars, calls>>

NextE == CallEfficiencyRule

SpecE == InitE /\ [][NextE]_vars

(* ---------------- claims on the uniform stream ---------------- *)

Min(x, y) == IF x <= y THEN x ELSE y

\* the values a stream has emitted, in order
Values(log) ==
  LET got == SelectSeq(log, LAMBDA e : e.exc = "none")
  IN  [i \in 1 .. Len(got) |-> got[i].val]

\* T^i(x) for T(x) = (a * x + c) mod m
RECURSIVE T_iter(_, _, _, _, _)
T_iter(i, x, a, m, c) ==
  IF i = 0 THEN x ELSE T_iter(i - 1, (a * x + c) % m, a, m, c)

ArgSeedInRange(s) == uargs[s].x0 >= 0 /\ uargs[s].x0 < uargs[s].m

ArgSeedOutOfRange(s) ==
  uargs[s].x0 # None /\ (uargs[s].x0 < 0 \/ uargs[s].x0 >= uargs[s].m)

\* C1: a stream called with a seed in [0, m) keeps 0 <= current < m while
\* its frame is alive, and every value it emits satisfies 0 <= value < 1.
C1_StateInRange ==
  \A s \in Streams :
    ArgSeedInRange(s) =>
      /\ u[s].pc \in {"created", "suspended"} =>
           (u[s].x0 >= 0 /\ u[s].x0 < u[s].m)
      /\ \A i \in 1 .. Len(ulog[s]) :
           ulog[s][i].exc = "none" =>
             /\ ulog[s][i].val[2] > 0
             /\ ulog[s][i].val[1] >= 0
             /\ ulog[s][i].val[1] < ulog[s][i].val[2]

C1_Witness ==
  \E s \in Streams :
    /\ ArgSeedInRange(s)
    /\ Len(Values(ulog[s])) = MaxDraws
    /\ u[s].pc = "suspended"
    /\ u[s].x0 = u[s].m - 1
    /\ u[s].a < 0

\* C2: two streams called with the same parameters and a seed in [0, m),
\* 0 included, give the same outcome at every request, whatever the clock.
C2_SameParamsSameSequence ==
  (uargs[1] = uargs[2] /\ ArgSeedInRange(1)) =>
    \A i \in 1 .. Min(Len(ulog[1]), Len(ulog[2])) : ulog[1][i] = ulog[2][i]

\* C3: the i-th request to a stream called with a seed x0 in [0, m) emits
\* T^i(x0) / m, x0 being the seed the caller supplied.
C3_IthDrawIsIthTransition ==
  \A s \in Streams :
    ArgSeedInRange(s) =>
      \A i \in 1 .. Len(ulog[s]) :
        ulog[s][i] =
          [exc |-> "none",
           val |-> <<T_iter(i, uargs[s].x0, uargs[s].a, uargs[s].m, uargs[s].c),
                     uargs[s].m>>]

\* C4 as stated: a call with a seed outside [0, m) fails in the call itself.
C4_FailsAtConstruction ==
  \A s \in Streams :
    (ArgSeedOutOfRange(s) /\ ucall[s] # "nocall") =>
      (ucall[s] = "AssertionError" /\ Values(ulog[s]) = <<>>)

\* C4 as amended: a call with a seed outside [0, m) returns a generator
\* without an error; the first request to it raises the assertion error, every
\* later request finds it exhausted, and it never emits a value.
C4_FailsAtFirstRequest ==
  \A s \in Streams :
    ArgSeedOutOfRange(s) =>
      /\ ucall[s] \in {"nocall", "returned"}
      /\ Values(ulog[s]) = <<>>
      /\ \A i \in 1 .. Len(ulog[s]) :
           ulog[s][i].exc = IF i = 1 THEN "AssertionError" ELSE "StopIteration"
      /\ (ucall[s] = "returned" /\ ulog[s] = <<>>) => u[s].pc = "created"

C4_Witness ==
  \E s \in Streams :
    /\ ArgSeedOutOfRange(s)
    /\ uargs[s].x0 >= uargs[s].m
    /\ ucall[s] = "returned"
    /\ Len(ulog[s]) >= 2
    /\ ulog[s][1].exc = "AssertionError"

(* ---------------- claims on stratified_sampling ---------------- *)

\* the uniform stream of the producer accepted its seed (line 78 passed)
SeedAccepted(log) == \A i \in 1 .. Len(log) : log[i].exc # "AssertionError"

\* C5: stratified_sampling(M, k) with M >= 1, k >= 0 and a seed its stream
\* accepts emits a value at each of the first M * k requests and none at any
\* later request, and its stream has made one transition per emitted value.
C5_ExactlyMkValues ==
  (pargs.kind = "stratified_sampling" /\ SeedAccepted(plog)) =>
    /\ \A i \in 1 .. Len(plog) :
         plog[i].exc = IF i <= pargs.M * pargs.k THEN "none" ELSE "StopIteration"
    /\ Len(Values(plog)) <= pargs.M * pargs.k
    /\ p.pc # "nocall" => p.u.steps = Len(Values(plog))

C5_Witness ==
  /\ pargs.kind = "stratified_sampling"
  /\ pargs.M = 2 /\ pargs.k = 2
  /\ Len(plog) = 5
  /\ Len(Values(plog)) = 4
  /\ plog[5].exc = "StopIteration"
  /\ p.u.steps = 4

\* C6: the value at position j*M+i of stratified_sampling(M, k) is
\* (u + i) / M for u the (j*M+i+1)-th draw of the sampler's stream, and it
\* lies in [i/M, (i+1)/M).
C6_OnePerStratum ==
  pargs.kind = "stratified_sampling" =>
    \E s \in 0 .. pargs.m - 1 :
      /\ truthy(pargs.x0) /\ Values(plog) # <<>> => s = pargs.x0
      /\ \A pos \in 0 .. Len(Values(plog)) - 1 :
           LET i == pos % pargs.M
               v == Values(plog)[pos + 1]
               x == T_iter(pos + 1, s, pargs.a, pargs.m, pargs.c)
           IN  /\ v = <<x + i * pargs.m, pargs.m * pargs.M>>
               /\ i * v[2] <= v[1] * pargs.M
               /\ v[1] * pargs.M < (i + 1) * v[2]

C6_Witness ==
  /\ pargs.kind = "stratified_sampling"
  /\ pargs.M = 2 /\ pargs.k = 2
  /\ truthy(pargs.x0)
  /\ Len(Values(plog)) = 4
  /\ Values(plog)[4][1] > pargs.m

(* ---------------- claims on monte_carlo ---------------- *)

\* the producer itself failed: seed rejected, or logarithm of zero
ProducerFailed == mc.exc \in {"AssertionError", "ValueError"}

McOver == mc.pc \in {"returned", "raised"}

\* uniform draws per emitted value
PerValue(kind) ==
  CASE kind = "normal_sampling" -> 2
    [] kind = "normal_standard" -> NUniforms
    [] OTHER -> 1

\* a/b = c/d for positive b, d
RatEq(q, r) == q[1] * r[2] = r[1] * q[2]

\* C7 as stated: for n >= 1 and any producer that does not itself fail,
\* monte_carlo requests exactly n values and returns their mean.
C7_AlwaysNDrawsAndMean ==
  (mc.n >= 1 /\ McOver /\ ~ProducerFailed) =>
    /\ mc.pc = "returned"
    /\ mc.reqs = mc.n
    /\ Len(mc.vals) = mc.n

\* C7 as amended: for n >= 1 monte_carlo never requests more than n values
\* of its one fresh producer.  Unless the producer itself fails, it returns
\* iff the producer is not normal_sampling and, if stratified_sampling, has
\* M * k >= n; it has then requested exactly n values and returns their
\* arithmetic mean.  A stratified sampler with M * k < n makes it raise
\* RuntimeError at request M * k + 1, normal_sampling makes it raise TypeError.
C7_NDrawsAndMeanWhenAvailable ==
  mc.n >= 1 =>
    /\ mc.reqs <= mc.n
    /\ mc.pc = "returned" =>
         /\ mc.reqs = mc.n /\ Len(mc.vals) = mc.n
         /\ mc.gen.u.steps = mc.n * PerValue(pargs.kind)
         /\ pargs.kind # "normal_sampling"
         /\ pargs.kind = "stratified_sampling" => pargs.M * pargs.k >= mc.n
         /\ IF pargs.kind = "exponential_sampling"
              THEN /\ mc.result[1] = ProdSeq(Column(mc.vals, 1))
                   /\ mc.result[2] = pargs.m ^ mc.n
                   /\ mc.result[3] = pargs.lambda * mc.n
              ELSE \A i \in 1 .. mc.n :
                     /\ mc.vals[i][2] = mc.vals[1][2]
                     /\ RatEq(<<mc.result[1] * mc.n, mc.result[2]>>,
                              <<SumSeq(Column(mc.vals, 1)), mc.vals[1][2]>>)
    /\ (McOver /\ ~ProducerFailed) =>
         IF pargs.kind = "normal_sampling"
           THEN mc.pc = "raised" /\ mc.exc = "TypeError"
           ELSE IF pargs.kind = "stratified_sampling" /\ pargs.M * pargs.k < mc.n
             THEN /\ mc.pc = "raised" /\ mc.exc = "RuntimeError"
                  /\ mc.reqs = pargs.M * pargs.k + 1
             ELSE mc.pc = "returned"

C7_Witness ==
  /\ mc.n = 3
  /\ mc.pc = "returned"
  /\ pargs.kind = "uniform_sampling"
  /\ mc.result[1] > 0
  /\ mc.gen.u.steps = 3

\* C8: monte_carlo with n <= 0 raises (the statistics error of the empty
\* mean), returns no estimate and requests nothing of the producer.
C8_NonPositiveNFails ==
  mc.n <= 0 =>
    /\ mc.pc # "returned" /\ mc.result = NoValue
    /\ mc.pc = "raised" => mc.exc = "StatisticsError"
    /\ mc.reqs = 0 /\ mc.vals = <<>>
    /\ mc.pc # "nocall" =>
         mc.gen = call_producer(pargs.kind, pargs.M, pargs.k, pargs.lambda,
                                pargs.x0, pargs.a, pargs.m, pargs.c)

C8_Witness ==
  /\ mc.n < 0
  /\ mc.pc = "raised"
  /\ mc.exc = "StatisticsError"
  /\ mc.gen.pc = "created"

(* ---------------- claims on efficiency_rule ---------------- *)

\* C9: on a non-empty tuple efficiency_rule returns (idx, min), min the
\* smallest product variance * cost and idx the lowest 0-based index whose
\* product is min; the doctest data selects index 1.
C9_FirstMinimum ==
  (data # <<>> /\ eff.pc # "nocall") =>
    /\ eff.pc = "returned"
    /\ LET idx == eff.val[1]
           lo == eff.val[2]
       IN  /\ idx \in 0 .. Len(data) - 1
           /\ data[idx + 1][1] * data[idx + 1][2] = lo
           /\ \A h \in 1 .. Len(data) : data[h][1] * data[h][2] >= lo
           /\ \A h \in 1 .. idx : data[h][1] * data[h][2] # lo
    /\ data = DoctestData => eff.val = <<1, 346>>

C9_Witness ==
  /\ Len(data) = 3
  /\ eff.pc = "returned"
  /\ eff.val[1] = 1
  /\ data[2][1] * data[2][2] = data[3][1] * data[3][2]
  /\ data[1][1] * data[1][2] > data[2][1] * data[2][2]

\* C10: on the empty tuple efficiency_rule raises (the ValueError of min)
\* and returns no pair.
C10_EmptyFails ==
  (data = <<>> /\ eff.pc # "nocall") =>
    (eff.pc = "raised" /\ eff.exc = "ValueError" /\ eff.val = NoValue)

C10_Witness == data = <<>> /\ eff.pc = "raised"

(* ---------------- one uniform stream over many draws ---------------- *)

\* moduli up to one more than Moduli: 4 is the least modulus with a
\* multiplier (2) whose orbit enters its cycle only after the first draw
OrbitModuli == 1 .. MaxM + 1

\* requests made to the stream: twice the largest modulus
OrbitDraws == 2 * (MaxM + 1)

InitO ==
  /\ clock \in Clock
  /\ \E x \in Seeds, a \in Multipliers, m \in OrbitModuli, c \in Increments :
       uargs = [s \in Streams |->
                  IF s = 1 THEN [x0 |-> x, a |-> a, m |-> m, c |-> c]
                  ELSE [x0 |-> None, a |-> 0, m |-> 1, c |-> 0]]
  /\ ucall = [s \in Streams |-> "nocall"]
  /\ u = [s \in Streams |-> NoGen]
  /\ ulog = [s \in Streams |-> <<>>]
  /\ uborn = [s \in Streams |-> None]
  /\ IdleP /\ IdleMC /\ IdleE /\ IdleP2 /\ IdleC

\* next(u) on stream 1, up to OrbitDraws times
DrawOn ==
  /\ ucall[1] = "returned"
  /\ Len(ulog[1]) < OrbitDraws
  /\ LET r == next_uniform(u[1], clock)
     IN  /\ u' = [u EXCEPT ![1] = r.gen]
         /\ ulog' = [ulog EXCEPT ![1] = Append(@, [exc |-> r.exc, val |-> r.val])]
  /\ UNCHANGED <<clock, uargs, ucall, uborn, pvars, mc, evars, p2vars, calls>>

NextO == Tick \/ Construct(1) \/ DrawOn

SpecO == InitO /\ [][NextO]_vars

\* C11 as stated: the emitted sequence is periodic from its first value, with
\* a period p in 1 .. m: the i-th and the (i+p)-th value agree for all i >= 1.
C11_PeriodicFromFirstDraw ==
  LET v == Values(ulog[1])
  IN  \E q \in 1 .. uargs[1].m :
        \A i \in 1 .. Len(v) - q : v[i] = v[i + q]

\* C11 as amended: the emitted sequence is periodic after a pre-period, with
\* a period p in 1 .. m: the i-th and the (i+p)-th value agree for all
\* i >= m - p; and from the first value on when gcd(a, m) = 1.
C11_EventuallyPeriodic ==
  LET v == Values(ulog[1])
      m == uargs[1].m
      a == uargs[1].a
  IN  /\ \E q \in 1 .. m :
           \A i \in 1 .. Len(v) - q : i >= m - q => v[i] = v[i + q]
      /\ (\A d \in 2 .. m : ~(a % d = 0 /\ m % d = 0)) =>
           \E q \in 1 .. m : \A i \in 1 .. Len(v) - q : v[i] = v[i + q]

C11_Witness ==
  LET v == Values(ulog[1])
  IN  /\ uargs[1].m = 4
      /\ Len(v) = 8
      /\ v[1] # v[2] /\ v[2] = v[3]
      /\ \A q \in 1 .. 4 : v[1] # v[1 + q]

(* ---------------- claims on the transformation samplers ---------------- *)

\* C12: a request to exponential_sampling whose uniform draw is 0, and a
\* request to normal_sampling whose first uniform draw u1 is 0, raises the
\* domain error (ValueError) and emits no value; no emitted value of either
\* sampler comes from a zero under the logarithm.
C12_ZeroDrawIsDomainError ==
  [][(pargs.kind \in {"exponential_sampling", "normal_sampling"}
        /\ plog' # plog) =>
       LET out == plog'[Len(plog')]
           r == next_uniform(own_u(p), clock)
       IN  /\ (p.pc # "done" /\ r.exc = "none" /\ r.val[1] = 0) =>
                /\ out = [exc |-> "ValueError", val |-> NoValue]
                /\ p'.pc = "done"
           /\ out.exc = "none" => out.val[1] # 0]_vars

C12_Witness ==
  /\ pargs.kind = "normal_sampling"
  /\ Len(plog) = 2
  /\ plog[1].exc = "none"
  /\ plog[2].exc = "ValueError"
  /\ p.u.steps = 4

\* uniform draws per emission of a transformation sampler
DrawsPerEmission(kind) ==
  CASE kind = "exponential_sampling" -> 1
    [] kind = "normal_sampling" -> 2
    [] kind = "normal_standard" -> 12

\* T^lo(s) + ... + T^hi(s)
SumOrbit(lo, hi, s, a, m, c) ==
  SumSeq([h \in 1 .. hi - lo + 1 |-> T_iter(lo + h - 1, s, a, m, c)])

\* C14: every emission of exponential_sampling, normal_sampling and
\* normal_standard advances the sampler's stream exactly 1, 2 and 12 times:
\* after r emissions the stream has made r, 2r and 12r transitions, the e-th
\* emission is built from the draws d*(e-1)+1 .. d*e, and u1 is the earlier
\* draw of a pair.
C14_FixedDrawsPerEmission ==
  pargs.kind \in {"exponential_sampling", "normal_sampling", "normal_standard"} =>
    LET v == Values(plog)
        d == DrawsPerEmission(pargs.kind)
        T(i, s) == T_iter(i, s, pargs.a, pargs.m, pargs.c)
    IN  /\ p.pc = "suspended" => p.u.steps = d * Len(v)
        /\ p.pc = "done" => (p.u.steps = 0 \/ p.u.steps = d * (Len(v) + 1))
        /\ \E s \in 0 .. pargs.m - 1 :
             /\ truthy(pargs.x0) /\ v # <<>> => s = pargs.x0
             /\ \A e \in 1 .. Len(v) :
                  v[e] = CASE pargs.kind = "exponential_sampling" ->
                                <<T(e, s), pargs.m, pargs.lambda>>
                           [] pargs.kind = "normal_sampling" ->
                                <<T(2 * e - 1, s), pargs.m, T(2 * e, s), pargs.m>>
                           [] pargs.kind = "normal_standard" ->
                                <<SumOrbit(12 * (e - 1) + 1, 12 * e, s,
                                           pargs.a, pargs.m, pargs.c)
                                    - 6 * pargs.m, pargs.m>>

C14_Witness ==
  /\ pargs.kind = "normal_sampling"
  /\ Len(Values(plog)) = 2
  /\ p.pc = "suspended"
  /\ p.u.steps = 4
  /\ Values(plog)[1][1] # Values(plog)[1][3]

IsPrime(n) == n >= 2 /\ \A d \in 2 .. n - 1 : n % d # 0

\* C17: with c = 0, a prime modulus m and a multiplier not divisible by m,
\* a seed in 1 .. m-1 keeps the state in 1 .. m-1, so no uniform is 0 and no
\* logarithm fails; a state 0 comes only from a starting state 0 and stays 0.
C17_NoZeroFromNonZeroSeed ==
  (pargs.c = 0 /\ IsPrime(pargs.m) /\ pargs.a % pargs.m # 0) =>
    /\ pargs.x0 \in 1 .. pargs.m - 1 =>
         /\ p.u.pc \in {"created", "suspended"} => p.u.x0 \in 1 .. pargs.m - 1
         /\ \A i \in 1 .. Len(plog) :
              plog[i].exc \notin {"ValueError", "AssertionError"}
         /\ pargs.kind = "uniform_sampling" =>
              \A i \in 1 .. Len(plog) : plog[i].val[1] \in 1 .. pargs.m - 1
    /\ (p.u.pc = "suspended" /\ p.u.x0 = 0) =>
         /\ ~truthy(pargs.x0)
         /\ pargs.kind = "uniform_sampling" =>
              \A i \in 1 .. Len(plog) : plog[i].val[1] = 0

C17_Witness ==
  /\ pargs.kind = "exponential_sampling"
  /\ pargs.c = 0 /\ pargs.m = 3 /\ pargs.a = 2
  /\ pargs.x0 = 1
  /\ Len(Values(plog)) = 3
  /\ p.u.x0 = 2

(* ---------------- streams seeded by default ---------------- *)

InitD ==
  /\ clock \in Clock
  /\ \E a \in Multipliers, m \in Moduli, c \in Increments :
       uargs = [s \in Streams |-> [x0 |-> None, a |-> a, m |-> m, c |-> c]]
  /\ ucall = [s \in Streams |-> "nocall"]
  /\ u = [s \in Streams |-> NoGen]
  /\ ulog = [s \in Streams |-> <<>>]
  /\ uborn = [s \in Streams |-> None]
  /\ IdleP /\ IdleMC /\ IdleE /\ IdleP2 /\ IdleC

\* u = uniform_sampling(), the clock's reading at the call noted in uborn
ConstructAt(s) ==
  /\ ucall[s] = "nocall"
  /\ LET r == uniform_sampling(uargs[s].x0, uargs[s].a, uargs[s].m, uargs[s].c)
     IN  /\ ucall' = [ucall EXCEPT ![s] = IF r.exc = "none" THEN "returned" ELSE r.exc]
         /\ u' = [u EXCEPT ![s] = r.gen]
  /\ uborn' = [uborn EXCEPT ![s] = clock]
  /\ UNCHANGED <<clock, uargs, ulog, pvars, mc, evars, p2vars, calls>>

NextD ==
  \/ Tick
  \/ \E s \in Streams : ConstructAt(s)
  \/ \E s \in Streams : Draw(s)

SpecD == InitD /\ [][NextD]_vars

\* what the first request to a stream gives when its seed is the reading t
FirstFrom(t, s) ==
  IF t >= 0 /\ t < uargs[s].m
    THEN [exc |-> "none",
          val |-> <<(uargs[s].a * t + uargs[s].c) % uargs[s].m, uargs[s].m>>]
    ELSE [exc |-> "AssertionError", val |-> NoValue]

\* C15 as stated: without a seed, the stream works from the clock's
\* sub-second reading at its construction call.
C15_SeedIsClockAtConstruction ==
  \A s \in Streams :
    (uargs[s].x0 = None /\ ulog[s] # <<>>) => ulog[s][1] = FirstFrom(uborn[s], s)

\* C15 as amended: without a seed, the construction call reads no clock;
\* each stream takes as seed the clock's sub-second reading at its own first
\* request for a value, so the seed is not fixed once at startup and is not
\* the reading at the construction call.
C15_SeedIsClockAtFirstRequest ==
  [][\A s \in Streams :
       /\ (uargs[s].x0 = None /\ ucall[s] = "nocall" /\ ucall'[s] # "nocall") =>
            (ucall'[s] = "returned" /\ u'[s].pc = "created" /\ u'[s].x0 = None)
       /\ (uargs[s].x0 = None /\ ulog[s] = <<>> /\ ulog'[s] # <<>>) =>
            ulog'[s] = <<FirstFrom(clock, s)>>]_vars

C15_Witness ==
  /\ \A s \in Streams : uargs[s].x0 = None /\ Len(ulog[s]) >= 1
  /\ uborn[1] = uborn[2]
  /\ ulog[1][1].exc = "none" /\ ulog[2][1].exc = "none"
  /\ ulog[1][1] # ulog[2][1]
  /\ ulog[1][1] # FirstFrom(uborn[1], 1)

(* ---------------- two producers from the same arguments ---------------- *)

InitI ==
  /\ clock \in Clock
  /\ pargs \in ProducerArgs
  /\ p = NoProducer /\ plog = <<>>
  /\ p2 = NoProducer /\ p2log = <<>>
  /\ IdleU /\ IdleMC /\ IdleE /\ IdleC

\* gen = x(*args), the first (w = 1) or the second (w = 2) call
CallOf(w) ==
  /\ IF w = 1 THEN p.pc = "nocall" ELSE p2.pc = "nocall"
  /\ LET g == call_producer(pargs.kind, pargs.M, pargs.k, pargs.lambda,
                            pargs.x0, pargs.a, pargs.m, pargs.c)
     IN  IF w = 1 THEN p' = g /\ UNCHANGED p2 ELSE p2' = g /\ UNCHANGED p
  /\ UNCHANGED <<clock, pargs, plog, p2log, uvars, mc, evars, calls>>

RequestOfSharedStream(w) ==
  /\ IF w = 1 THEN p.pc # "nocall" /\ Len(plog) < MaxPairRequests
               ELSE p2.pc # "nocall" /\ Len(p2log) < MaxPairRequests
  /\ LET r == next_producer(IF w = 1 THEN p ELSE p2, clock)
         o == next_producer(IF w = 1 THEN p2 ELSE p, clock)
     IN  IF w = 1
           THEN /\ p' = r.gen
                /\ plog' = Append(plog, [exc |-> r.exc, val |-> r.val])
                /\ p2' = IF p2.pc = "nocall" THEN p2 ELSE o.gen
                /\ UNCHANGED p2log
           ELSE /\ p2' = r.gen
                /\ p2log' = Append(p2log, [exc |-> r.exc, val |-> r.val])
                /\ p' = IF p.pc = "nocall" THEN p ELSE o.gen
                /\ UNCHANGED plog
  /\ UNCHANGED <<clock, pargs, uvars, mc, evars, calls>>

\* next(gen) on the first or the second generator
RequestOf(w) ==
  /\ IF w = 1 THEN p.pc # "nocall" /\ Len(plog) < MaxPairRequests
               ELSE p2.pc # "nocall" /\ Len(p2log) < MaxPairRequests
  /\ LET r == next_producer(IF w = 1 THEN p ELSE p2, clock)
     IN  IF w = 1
           THEN /\ p' = r.gen
                /\ plog' = Append(plog, [exc |-> r.exc, val |-> r.val])
                /\ UNCHANGED <<p2, p2log>>
           ELSE /\ p2' = r.gen
                /\ p2log' = Append(p2log, [exc |-> r.exc, val |-> r.val])
                /\ UNCHANGED <<p, plog>>
  /\ UNCHANGED <<clock, pargs, uvars, mc, evars, calls>>

NextI ==
  \/ Tick
  \/ \E w \in {1, 2} : CallOf(w)
  \/ \E w \in {1, 2} : RequestOf(w)

SpecI == InitI /\ [][NextI]_vars

\* C13: a step that advances one of two producers leaves the other's
\* generator (its stream state included) and its outcomes unchanged, and two
\* producers called with the same arguments and a seed of their own emit the
\* same sequence however the requests to them interleave.
C13_NoSharedState ==
  /\ [](truthy(pargs.x0) =>
          \A i \in 1 .. Min(Len(plog), Len(p2log)) : plog[i] = p2log[i])
  /\ [][/\ (p' # p \/ plog' # plog) => (p2' = p2 /\ p2log' = p2log)
        /\ (p2' # p2 \/ p2log' # p2log) => (p' = p /\ plog' = plog)]_vars

C13_Witness ==
  /\ pargs.kind = "stratified_sampling"
  /\ truthy(pargs.x0)
  /\ Len(Values(plog)) = 2 /\ Len(Values(p2log)) = 1
  /\ p.u.x0 # p2.u.x0
  /\ plog[1] # plog[2]

(* ---------------- two callers advancing one stream ---------------- *)

\* a generator that is executing refuses a second next() with
\* "ValueError: generator already executing"
admit_always(running) == TRUE

admit(running) == ~running

Running == \E c \in Callers : calls[c].pc # "idle"

InitC ==
  /\ clock \in Clock
  /\ \E st \in StreamArgs :
       uargs = [s \in Streams |->
                  IF s = 1 THEN st ELSE [x0 |-> None, a |-> 0, m |-> 1, c |-> 0]]
  /\ ucall = [s \in Streams |-> "nocall"]
  /\ u = [s \in Streams |-> NoGen]
  /\ ulog = [s \in Streams |-> <<>>]
  /\ uborn = [s \in Streams |-> None]
  /\ calls = [c \in Callers |-> NoCaller]
  /\ IdleP /\ IdleMC /\ IdleE /\ IdleP2

\* caller c calls next(u): it enters the body, or is refused at once
Enter(c) ==
  /\ ucall[1] = "returned"
  /\ calls[c].pc = "idle"
  /\ Len(calls[c].got) < MaxCalls
  /\ IF admit(Running)
       THEN calls' = [calls EXCEPT ![c].pc = "inside"]
       ELSE calls' = [calls EXCEPT ![c].got =
                        Append(@, [exc |-> "ValueError", val |-> NoValue])]
  /\ UNCHANGED <<clock, uvars, pvars, mc, evars, p2vars>>

\* the body reads x0 and computes modulus(x0) (on the first run: the seed)
Read(c) ==
  /\ calls[c].pc = "inside"
  /\ calls' = [calls EXCEPT ![c].pc = "computed",
                            ![c].r = next_uniform(u[1], clock)]
  /\ UNCHANGED <<clock, uvars, pvars, mc, evars, p2vars>>

\* the body stores x0 and yields x0 / m (or raises) to the caller
Write(c) ==
  /\ calls[c].pc = "computed"
  /\ LET out == [exc |-> calls[c].r.exc, val |-> calls[c].r.val]
     IN  /\ u' = [u EXCEPT ![1] = calls[c].r.gen]
         /\ ulog' = [ulog EXCEPT ![1] = Append(@, out)]
         /\ calls' = [calls EXCEPT ![c].pc = "idle", ![c].got = Append(@, out)]
  /\ UNCHANGED <<clock, uargs, ucall, uborn, pvars, mc, evars, p2vars>>

NextC ==
  \/ Tick
  \/ Construct(1)
  \/ \E c \in Callers : Enter(c) \/ Read(c) \/ Write(c)

SpecC == InitC /\ [][NextC]_vars

====
